---- MODULE Spec2Model ----
(***************************************************************************)
(* Model of QueryService (src/src/app/query.service.ts): the pipeline that *)
(* turns extracted text entities and the raw input into a Query            *)
(* (createQuery), a Query into a DataRequest (toDataRequest) and runs the  *)
(* request against the climate data store (runQuery).                      *)
(*                                                                         *)
(* Instants are pairs (day, ms): days since 1970-01-01 UTC and the         *)
(* millisecond within that day, so that getTime() = day * 86400000 + ms.   *)
(* Coordinates are decimal degrees held in tenths of a degree; each stands  *)
(* for the IEEE-754 double nearest to it, and their subtraction is the     *)
(* rounded double subtraction.                                             *)
(***************************************************************************)
EXTENDS Integers, Sequences, FiniteSets

VARIABLES
    pc,           \* position of the createQuery call
    snerEntites,  \* what extractEntities resolved with (line 78)
    entities,     \* the score-sorted AWS-shaped entities (line 79)
    dates,        \* toDates(entities) (line 81)
    locations,    \* toLocations(entities) (line 82)
    geoCalls,     \* arguments passed to geoService.getGoogleResult, in order
    words,        \* keywords KeywordExtractor returned for the input (line 56)
    error,        \* message of the Error createQuery rejected with
    query,        \* the Query createQuery resolved with
    rpc,          \* position of the runQuery call
    rquery,       \* the Query handed to runQuery
    request,      \* toDataRequest(rquery) (line 150)
    calls,        \* collaborator calls made by runQuery, in order
    results,      \* what those calls resolved with, in order
    rerror        \* rejection of runQuery

vars == <<pc, snerEntites, entities, dates, locations, geoCalls, words, error,
          query, rpc, rquery, request, calls, results, rerror>>

qvars == <<pc, snerEntites, entities, dates, locations, geoCalls, words, error, query>>
rvars == <<rpc, rquery, request, calls, results, rerror>>

(***************************************************************************)
(* Bounds of the explored inputs.                                          *)
(***************************************************************************)
MaxEntities == 3

None == "none"
Undefined == "undefined"

(***************************************************************************)
(* Date arithmetic of the JavaScript Date object (proleptic Gregorian, UTC)*)
(***************************************************************************)
MsPerDay == 86400000

DaysFromCivil(y, m, d) ==
    LET yy  == IF m <= 2 THEN y - 1 ELSE y
        era == yy \div 400
        yoe == yy - era * 400
        mp  == IF m > 2 THEN m - 3 ELSE m + 9
        doy == (153 * mp + 2) \div 5 + d - 1
        doe == yoe * 365 + yoe \div 4 - yoe \div 100 + doy
    IN era * 146097 + doe - 719468

CivilFromDays(n) ==
    LET z   == n + 719468
        era == z \div 146097
        doe == z - era * 146097
        yoe == (doe - doe \div 1460 + doe \div 36524 - doe \div 146096) \div 365
        doy == doe - (365 * yoe + yoe \div 4 - yoe \div 100)
        mp  == (5 * doy + 2) \div 153
        d   == doy - (153 * mp + 2) \div 5 + 1
        m   == IF mp < 10 THEN mp + 3 ELSE mp - 9
        y   == yoe + era * 400
    IN [year |-> IF m <= 2 THEN y + 1 ELSE y, month |-> m, day |-> d]

MkDate(y, m, d, msOfDay) == [valid |-> TRUE, day |-> DaysFromCivil(y, m, d), ms |-> msOfDay]
InvalidDate == [valid |-> FALSE, day |-> 0, ms |-> 0]

\* d1.getTime() >= d2.getTime(); false when either is NaN
GetTimeGE(d1, d2) ==
    /\ d1.valid /\ d2.valid
    /\ \/ d1.day > d2.day
       \/ d1.day = d2.day /\ d1.ms >= d2.ms

getUTCFullYear(d) == CivilFromDays(d.day).year

\* variant: the upper year bound taken inclusive
InWindowInclusive(date) == getUTCFullYear(date) <= 2018 /\ getUTCFullYear(date) > 2007

\* date.getUTCFullYear() < 2018 && date.getUTCFullYear() > 2007
InWindow(date) == getUTCFullYear(date) < 2018 /\ getUTCFullYear(date) > 2007

(***************************************************************************)
(* Inputs: the entity texts the extractor may return and what the          *)
(* permissive date parser makes of them (host in UTC).                     *)
(***************************************************************************)
DateTexts == {"December 2007", "March 2008", "October 2017", "February 2018", "someday"}
LocationTexts == {"Paris", "London"}

SugarDateCreate(text) ==
    CASE text = "December 2007" -> MkDate(2007, 12, 1, 0)
      [] text = "March 2008"    -> MkDate(2008, 3, 1, 0)
      [] text = "October 2017"  -> MkDate(2017, 10, 1, 0)
      [] text = "February 2018" -> MkDate(2018, 2, 1, 0)
      [] OTHER                  -> InvalidDate

\* confidence scores, in percent
Scores == {50, 90}

SnerEntities ==
    [type : {"DATE"}, text : DateTexts, confidence : Scores]
    \cup [type : {"LOCATION"}, text : LocationTexts, confidence : Scores]
    \cup [type : {"ORGANIZATION"}, text : {"Unesco"}, confidence : Scores]

EntityLists == UNION {[1..n -> SnerEntities] : n \in 0..MaxEntities}

(***************************************************************************)
(* Array.prototype.sort with the comparator of line 79                     *)
(***************************************************************************)
\* variant: ascending comparator
ScoreAscending(e1, e2) == e1.Score - e2.Score

ScoreDescending(e1, e2) == e2.Score - e1.Score

\* insert e behind every element that does not compare greater than it
InsertSorted(e, s) ==
    LET greater == {i \in 1..Len(s) : ScoreDescending(s[i], e) > 0}
        at == IF greater = {} THEN Len(s) + 1
              ELSE CHOOSE i \in greater : \A j \in greater : i <= j
    IN SubSeq(s, 1, at - 1) \o <<e>> \o SubSeq(s, at, Len(s))

\* entities.sort((e1, e2) => e2.Score - e1.Score): elements that compare equal
\* keep their order (ECMAScript 2019; earlier engines are stable on short arrays)
ArraySort(s) ==
    LET sorted[i \in 0..Len(s)] ==
            IF i = 0 THEN << >>
            ELSE InsertSorted(s[i], sorted[i - 1])
    IN sorted[Len(s)]

(***************************************************************************)
(* QueryService.toDates, toLocations                                       *)
(***************************************************************************)
toAwsEntities(sner) ==
    [i \in 1..Len(sner) |->
        [Type |-> sner[i].type, Text |-> sner[i].text, Score |-> sner[i].confidence]]

minDate == MkDate(2008, 1, 1, 0)

IsDateEntity(entity) == entity.Type = "DATE"
NotBeforeMinDate(date) == GetTimeGE(date, minDate)

\* entites.filter(...).map(entity => SugarDate.create(entity.Text))
ParsedDates(entites) ==
    LET dateEntities == SelectSeq(entites, IsDateEntity)
    IN [i \in 1..Len(dateEntities) |-> SugarDateCreate(dateEntities[i].Text)]

toDates(entites) == SelectSeq(ParsedDates(entites), NotBeforeMinDate)

IsLocationEntity(entity) == entity.Type = "LOCATION"

toLocations(ents) ==
    LET locationEntities == SelectSeq(ents, IsLocationEntity)
    IN [i \in 1..Len(locationEntities) |-> locationEntities[i].Text]

(***************************************************************************)
(* QueryService.toVariable                                                 *)
(***************************************************************************)
stems ==
    [Temperature        |-> <<"hot", "cold", "warm", "freeze">>,
     TotalCloudCover    |-> <<"sun", "cloud", "clear", "overcast">>,
     TotalPrecipitation |-> <<"dry", "wet", "rain", "moist">>,
     WindSpeed          |-> <<"wind", "storm", "calm">>]

\* variant: the keys enumerated in reverse
StemKeysReversed == <<"WindSpeed", "TotalPrecipitation", "TotalCloudCover", "Temperature">>

\* Object.keys(this.stems): string keys in insertion order
StemKeys == <<"Temperature", "TotalCloudCover", "TotalPrecipitation", "WindSpeed">>

\* String.prototype.startsWith
startsWith(word, prefix) ==
    /\ Len(prefix) <= Len(word)
    /\ SubSeq(word, 1, Len(prefix)) = prefix

\* Array.prototype.find on a sequence: the first element satisfying test
\* Array.prototype.find, given the positions whose element passes the test:
\* the first such element, undefined when there is none
FindSeq(s, hits) ==
    IF hits = {} THEN Undefined
    ELSE s[CHOOSE i \in hits : \A j \in hits : i <= j]

toVariable(ws) ==
    LET wordHits(validStem) == {j \in 1..Len(ws) : startsWith(ws[j], validStem)}
        stemHits(variable) ==
            {i \in 1..Len(stems[variable]) :
                FindSeq(ws, wordHits(stems[variable][i])) # Undefined}
        variableHits ==
            {k \in 1..Len(StemKeys) :
                FindSeq(stems[StemKeys[k]], stemHits(StemKeys[k])) # Undefined}
    IN FindSeq(StemKeys, variableHits)

\* what KeywordExtractor.extract returns for the inputs considered:
\* lower-cased, stop words, digits and duplicates removed
KeywordLists ==
    { <<"cold", "windy">>, <<"windy", "cold">>, <<"relevant">>, <<"rainy">>,
      <<"sunny", "stormy">>, <<"scold">>, <<"ho", "win">>, <<"calmly", "wet">>, << >> }

(***************************************************************************)
(* Geocoding collaborator (geo.service.ts)                                 *)
(***************************************************************************)
GoogleResults ==
    { [formatted_address |-> "Paris, France",
       geometry |-> [south |-> 488, west |-> 23, north |-> 489, east |-> 24]],
      [formatted_address |-> "London, UK",
       geometry |-> [south |-> 514, west |-> -5, north |-> 517, east |-> 3]] }

toGeoCoordinates(geometry) ==
    [latitude  |-> [min |-> geometry.south, max |-> geometry.north],
     longitude |-> [min |-> geometry.west,  max |-> geometry.east]]

(***************************************************************************)
(* QueryService.createQuery                                                *)
(***************************************************************************)
NoDatesFound == "NoDatesFound"
NoLocationsFound == "NoLocationsFound"
NoVariableFound == "NoVariableFound"

NoQuery == [dateRange |-> None]

\* line 78: extractEntities resolves
ExtractEntities ==
    /\ pc = "extracting"
    /\ \E sner \in EntityLists : snerEntites' = sner
    /\ pc' = "extracted"
    /\ UNCHANGED <<entities, dates, locations, geoCalls, words, error, query>>
    /\ UNCHANGED rvars

\* line 78: extractEntities rejects
ExtractEntitiesFails ==
    /\ pc = "extracting"
    /\ pc' = "rejected"
    /\ error' = "ExtractError"
    /\ UNCHANGED <<snerEntites, entities, dates, locations, geoCalls, words, query>>
    /\ UNCHANGED rvars

\* variant: the location check ahead of the date check
EntityCheckLocationsFirst(ds, ls) ==
    IF Len(ls) = 0 THEN NoLocationsFound
    ELSE IF Len(ds) = 0 \/ SelectSeq(ds, InWindow) = << >> THEN NoDatesFound
    ELSE None

\* lines 83-88: the two entity checks, in the order of the code
EntityCheck(ds, ls) ==
    IF Len(ds) = 0 \/ SelectSeq(ds, InWindow) = << >> THEN NoDatesFound
    ELSE IF Len(ls) = 0 THEN NoLocationsFound
    ELSE None

\* lines 79-91: sort, classify, check, start the geocoding lookup
Classify ==
    /\ pc = "extracted"
    /\ LET es == ArraySort(toAwsEntities(snerEntites))
           ds == toDates(es)
           ls == toLocations(es)
           failure == EntityCheck(ds, ls)
       IN /\ entities' = es
          /\ dates' = ds
          /\ locations' = ls
          /\ IF failure # None
             THEN /\ error' = failure
                  /\ pc' = "rejected"
                  /\ UNCHANGED geoCalls
             ELSE /\ geoCalls' = Append(geoCalls, ls[1])
                  /\ pc' = "geocoding"
                  /\ UNCHANGED error
    /\ UNCHANGED <<snerEntites, words, query>>
    /\ UNCHANGED rvars

\* lines 104-108: the date range of the returned Query
DateRangeOf(ds) == [min |-> ds[1], max |-> ds[Len(ds)]]

\* lines 91-112: getGoogleResult resolves; classify the variable, build the Query
GeoResolves ==
    /\ pc = "geocoding"
    /\ \E googleResult \in GoogleResults, ws \in KeywordLists :
        LET geoCoordinates == toGeoCoordinates(googleResult.geometry)
            climateVariable == toVariable(ws)
        IN /\ words' = ws
           /\ IF climateVariable = Undefined
              THEN /\ error' = NoVariableFound
                   /\ pc' = "rejected"
                   /\ UNCHANGED query
              ELSE /\ query' = [dateRange |-> DateRangeOf(dates),
                                googleResult |-> googleResult,
                                geoCoordinates |-> geoCoordinates,
                                variable |-> climateVariable]
                   /\ pc' = "resolved"
                   /\ UNCHANGED error
    /\ UNCHANGED <<snerEntites, entities, dates, locations, geoCalls>>
    /\ UNCHANGED rvars

\* line 91: getGoogleResult rejects
GeoRejects ==
    /\ pc = "geocoding"
    /\ pc' = "rejected"
    /\ error' = "GeoError"
    /\ UNCHANGED <<snerEntites, entities, dates, locations, geoCalls, words, query>>
    /\ UNCHANGED rvars

(***************************************************************************)
(* Number and date rendering: template literals, Date.toISOString,         *)
(* String.split                                                            *)
(***************************************************************************)
Digit(d) == SubSeq("0123456789", d + 1, d + 1)

RECURSIVE NatToString(_)
NatToString(n) ==
    IF n < 10 THEN Digit(n) ELSE NatToString(n \div 10) \o Digit(n % 10)

\* `${n}` for an integer-valued number; -0 renders as "0"
IntToString(n) == IF n < 0 THEN "-" \o NatToString(-n) ELSE NatToString(n)

\* `${coord}` for a coordinate held in tenths of a degree
TenthsToString(t) ==
    LET a == IF t < 0 THEN -t ELSE t
        whole == NatToString(a \div 10)
        body == IF a % 10 = 0 THEN whole ELSE whole \o "." \o Digit(a % 10)
    IN IF t < 0 THEN "-" \o body ELSE body

\* Math.ceil of an exact value held in tenths
CeilTenths(t) == -((-t) \div 10)

RECURSIVE Pow2(_)
Pow2(n) == IF n = 0 THEN 1 ELSE 2 * Pow2(n - 1)

\* the binary exponent k of a / 10 for a >= 1: 2^k <= a / 10 < 2^(k + 1)
BinaryExponent(a) ==
    CHOOSE k \in -4..14 :
        IF k >= 0 THEN 10 * Pow2(k) <= a /\ a < 10 * Pow2(k + 1)
        ELSE 10 <= a * Pow2(-k) /\ a * Pow2(-k - 1) < 10

\* 2^n modulo 10, n >= 1
Pow2Mod10(n) == <<2, 4, 8, 6>>[((n - 1) % 4) + 1]

\* double(t / 10) - t / 10, in units of 2^-56 / 10: the 53-bit significand of
\* the double nearest to t / 10 is a * 2^(52 - k) / 10 rounded to an integer
RoundingError(t) ==
    LET a == IF t < 0 THEN -t ELSE t
        k == BinaryExponent(a)
        rho == ((a % 10) * Pow2Mod10(52 - k)) % 10
        r == IF rho < 5 THEN -rho ELSE 10 - rho
    IN IF a = 0 THEN 0
       ELSE IF t < 0 THEN -(r * Pow2(k + 4)) ELSE r * Pow2(k + 4)

\* Math.ceil(max - min) on doubles. The exact difference of the two doubles is
\* (max - min) / 10 plus the difference of their rounding errors; next to a
\* whole number n it rounds to a double above n only when it lies more than
\* half a unit in the last place above n.
SpanCeil(max, min) ==
    LET d == max - min
        n == d \div 10
        e == RoundingError(max) - RoundingError(min)
        m == IF n < 0 THEN -n ELSE n
        k == BinaryExponent(10 * m)
        half == IF n < 0 /\ m = Pow2(k) THEN 5 * Pow2(k + 3) ELSE 5 * Pow2(k + 4)
    IN IF d % 10 # 0 THEN CeilTenths(d)
       ELSE IF n = 0 \/ e <= 0 THEN n
       ELSE IF e > half THEN n + 1 ELSE n

RECURSIVE PadStart(_, _)
PadStart(str, width) == IF Len(str) >= width THEN str ELSE PadStart("0" \o str, width)

\* Date.prototype.toISOString for years 0..9999: YYYY-MM-DDTHH:mm:ss.sssZ
toISOString(date) ==
    LET c == CivilFromDays(date.day)
        h == date.ms \div 3600000
        mi == (date.ms % 3600000) \div 60000
        sec == (date.ms % 60000) \div 1000
        milli == date.ms % 1000
    IN PadStart(NatToString(c.year), 4) \o "-" \o PadStart(NatToString(c.month), 2)
       \o "-" \o PadStart(NatToString(c.day), 2) \o "T"
       \o PadStart(NatToString(h), 2) \o ":" \o PadStart(NatToString(mi), 2)
       \o ":" \o PadStart(NatToString(sec), 2) \o "." \o PadStart(NatToString(milli), 3)
       \o "Z"

\* String.prototype.split on a one-character separator
Split(str, sep) ==
    LET seps == {i \in 1..Len(str) : SubSeq(str, i, i) = sep}
        n == Cardinality(seps)
        pos(k) == CHOOSE i \in seps : Cardinality({j \in seps : j < i}) = k - 1
        from(k) == IF k = 1 THEN 1 ELSE pos(k - 1) + 1
        to(k) == IF k = n + 1 THEN Len(str) ELSE pos(k) - 1
    IN [k \in 1..(n + 1) |-> SubSeq(str, from(k), to(k))]

\* variant: Math.floor in place of Math.round
MidDateFloor(min, max) ==
    LET daySum == max.day + min.day
        rest == (daySum % 2) * MsPerDay + max.ms + min.ms
        half == rest \div 2
    IN [valid |-> TRUE,
        day |-> daySum \div 2 + half \div MsPerDay,
        ms |-> half % MsPerDay]

\* new Date(Math.round((max.getTime() + min.getTime()) / 2))
MidDate(min, max) ==
    LET daySum == max.day + min.day
        rest == (daySum % 2) * MsPerDay + max.ms + min.ms
        half == (rest + 1) \div 2
    IN [valid |-> TRUE,
        day |-> daySum \div 2 + half \div MsPerDay,
        ms |-> half % MsPerDay]

(***************************************************************************)
(* QueryService.toDataRequest                                              *)
(***************************************************************************)
RangeSpan(range) == IntToString(SpanCeil(range.max, range.min))

toDataRequest(q) ==
    LET date == MidDate(q.dateRange.min, q.dateRange.max)
        isoDate == toISOString(date)
        datePart == Split(isoDate, "T")[1]
        timePart == Split(isoDate, "T")[2]
        timeParts == Split(timePart, ":")
        hour == timeParts[1]
        dateParts == Split(datePart, "-")
        year == dateParts[1]
        month == dateParts[2]
        day == dateParts[3]
        latRange == q.geoCoordinates.latitude
        lonRange == q.geoCoordinates.longitude
        grid == <<RangeSpan(latRange), RangeSpan(lonRange)>>
        area == <<TenthsToString(latRange.max), TenthsToString(lonRange.min),
                  TenthsToString(latRange.min), TenthsToString(lonRange.max)>>
        time == hour \o ":00"
    IN [name |-> "reanalysis-era5-single-levels",
        options |-> [variable |-> q.variable,
                     product_type |-> "reanalysis",
                     grid |-> grid,
                     area |-> area,
                     year |-> year,
                     month |-> month,
                     day |-> day,
                     format |-> "grib"]]

(***************************************************************************)
(* QueryService.runQuery and its collaborators                             *)
(***************************************************************************)
GribLinks == {"grib-1", "grib-2"}
DownloadLinks == {[link |-> "https://cds/a.json"], [link |-> "https://cds/b.json"]}
ResultJsons == {[mean |-> 1], [mean |-> 2]}

Call(fn, arg) == [fn |-> fn, arg |-> arg]

\* lines 150-151: build the request, call requestGrib
RunQuery ==
    /\ rpc = "start"
    /\ request' = toDataRequest(rquery)
    /\ calls' = Append(calls, Call("requestGrib", toDataRequest(rquery)))
    /\ rpc' = "submitting"
    /\ UNCHANGED <<rquery, results, rerror>>
    /\ UNCHANGED qvars

\* lines 151-152: requestGrib resolves, call requestJsonLink
SubmitResolves ==
    /\ rpc = "submitting"
    /\ \E gribLink \in GribLinks :
        /\ results' = Append(results, gribLink)
        /\ calls' = Append(calls, Call("requestJsonLink", gribLink))
    /\ rpc' = "resolving"
    /\ UNCHANGED <<rquery, request, rerror>>
    /\ UNCHANGED qvars

\* variant: a rejected requestGrib is called again
SubmitRetries ==
    /\ rpc = "submitting"
    /\ Len(calls) < 3
    /\ calls' = Append(calls, Call("requestGrib", request))
    /\ UNCHANGED <<rpc, rquery, request, results, rerror>>
    /\ UNCHANGED qvars

\* line 151: requestGrib rejects
SubmitRejects ==
    /\ rpc = "submitting"
    /\ rerror' = "SubmitError"
    /\ rpc' = "rejected"
    /\ UNCHANGED <<rquery, request, calls, results>>
    /\ UNCHANGED qvars

\* lines 152-153: requestJsonLink resolves, call get
ResolveResolves ==
    /\ rpc = "resolving"
    /\ \E downloadLink \in DownloadLinks :
        /\ results' = Append(results, downloadLink)
        /\ calls' = Append(calls, Call("get", downloadLink.link))
    /\ rpc' = "fetching"
    /\ UNCHANGED <<rquery, request, rerror>>
    /\ UNCHANGED qvars

\* line 152: requestJsonLink rejects
ResolveRejects ==
    /\ rpc = "resolving"
    /\ rerror' = "ResolveError"
    /\ rpc' = "rejected"
    /\ UNCHANGED <<rquery, request, calls, results>>
    /\ UNCHANGED qvars

\* line 153: get resolves, runQuery resolves with its result
FetchResolves ==
    /\ rpc = "fetching"
    /\ \E resultJson \in ResultJsons : results' = Append(results, resultJson)
    /\ rpc' = "resolved"
    /\ UNCHANGED <<rquery, request, calls, rerror>>
    /\ UNCHANGED qvars

\* line 153: get rejects
FetchRejects ==
    /\ rpc = "fetching"
    /\ rerror' = "FetchError"
    /\ rpc' = "rejected"
    /\ UNCHANGED <<rquery, request, calls, results>>
    /\ UNCHANGED qvars

(***************************************************************************)
(* Queries handed to runQuery                                              *)
(***************************************************************************)
RunDays ==
    { DaysFromCivil(2015, 3, 1), DaysFromCivil(2015, 12, 31),
      DaysFromCivil(2016, 1, 1), DaysFromCivil(2016, 2, 29) }
RunMillis == {0, 43200000, 86399999}
RunDates == [valid : {TRUE}, day : RunDays, ms : RunMillis]

\* coordinates in tenths of a degree
LatValues == {488, 489, 12, 22, -340}
LonValues == {23, 24, -1338, -1278}

Queries ==
    [dateRange : [min : RunDates, max : RunDates],
     googleResult : {[formatted_address |-> "somewhere"]},
     geoCoordinates : [latitude : [min : LatValues, max : LatValues],
                       longitude : [min : LonValues, max : LonValues]],
     variable : {"Temperature"}]

NoRequest == [name |-> None]

QInit ==
    /\ pc = "extracting"
    /\ snerEntites = << >>
    /\ entities = << >>
    /\ dates = << >>
    /\ locations = << >>
    /\ geoCalls = << >>
    /\ words = << >>
    /\ error = None
    /\ query = NoQuery

RIdle ==
    /\ rpc = "idle"
    /\ rquery = NoQuery
    /\ request = NoRequest
    /\ calls = << >>
    /\ results = << >>
    /\ rerror = None

Init == QInit /\ RIdle

Next ==
    \/ ExtractEntities
    \/ ExtractEntitiesFails
    \/ Classify
    \/ GeoResolves
    \/ GeoRejects

Spec == Init /\ [][Next]_vars

QIdle ==
    /\ pc = "idle"
    /\ snerEntites = << >>
    /\ entities = << >>
    /\ dates = << >>
    /\ locations = << >>
    /\ geoCalls = << >>
    /\ words = << >>
    /\ error = None
    /\ query = NoQuery

RInit ==
    /\ rpc = "start"
    /\ rquery \in Queries
    /\ request = NoRequest
    /\ calls = << >>
    /\ results = << >>
    /\ rerror = None

InitRun == QIdle /\ RInit

NextRun ==
    \/ RunQuery
    \/ SubmitResolves
    \/ SubmitRejects
    \/ ResolveResolves
    \/ ResolveRejects
    \/ FetchResolves
    \/ FetchRejects

SpecRun == InitRun /\ [][NextRun]_vars

(***************************************************************************)
(* Properties of createQuery (checked under Spec)                          *)
(***************************************************************************)
\* the UTC year of day number n lies in 2008..2017
YearInWindow(n) == DaysFromCivil(2008, 1, 1) <= n /\ n < DaysFromCivil(2018, 1, 1)

\* a DATE entity whose text parses to a date with a year in 2008..2017
IsValidDateEntity(e) ==
    /\ e.type = "DATE"
    /\ SugarDateCreate(e.text).valid
    /\ YearInWindow(SugarDateCreate(e.text).day)

HasValidDate == \E i \in DOMAIN snerEntites : IsValidDateEntity(snerEntites[i])
HasLocation == \E i \in DOMAIN snerEntites : snerEntites[i].type = "LOCATION"
HasText(t) == \E i \in DOMAIN snerEntites : snerEntites[i].text = t

\* the entity checks of createQuery have run on the extracted list
Classified == pc \in {"geocoding", "resolved"} \/ (pc = "rejected" /\ error # "ExtractError")

\* C1 (as claimed): a list with zero LOCATION entities always fails with
\* NoLocationsFound, whatever DATE entities it holds.
C1_NoLocationAlwaysNoLocationsFound ==
    (Classified /\ ~HasLocation) => (pc = "rejected" /\ error = NoLocationsFound)

\* C1 (amended): a list with zero LOCATION entities always fails; the error is
\* NoLocationsFound when some DATE entity parses to a year in 2008..2017 and
\* NoDatesFound when none does, because the date check runs first.
C1_NoLocationFails ==
    (Classified /\ ~HasLocation) =>
        /\ pc = "rejected"
        /\ geoCalls = << >>
        /\ error = IF HasValidDate THEN NoLocationsFound ELSE NoDatesFound

C1_Witness ==
    /\ Classified /\ ~HasLocation /\ HasValidDate
    /\ HasText("someday")
    /\ error = NoLocationsFound

\* C2 (as claimed): the years of dateRange.min and dateRange.max of every
\* returned Query lie in 2008..2017.
C2_RangeYearsInWindow ==
    pc = "resolved" =>
        /\ YearInWindow(query.dateRange.min.day)
        /\ YearInWindow(query.dateRange.max.day)

\* C3 (as claimed): every returned Query has dateRange.min <= dateRange.max.
C3_RangeOrdered ==
    pc = "resolved" => GetTimeGE(query.dateRange.max, query.dateRange.min)

\* C4: createQuery fails with NoDatesFound exactly when no DATE entity parses
\* to a date whose year is in 2008..2017; with such a date and a location the
\* entity checks raise nothing, and they raise no error other than
\* NoDatesFound and NoLocationsFound.
C4_NoDatesFoundExactly ==
    Classified =>
        /\ (error = NoDatesFound) <=> ~HasValidDate
        /\ (HasValidDate /\ HasLocation) => error \notin {NoDatesFound, NoLocationsFound}
        /\ (pc = "rejected" /\ geoCalls = << >>) => error \in {NoDatesFound, NoLocationsFound}

C4_Witness ==
    /\ Classified
    /\ error = NoDatesFound
    /\ HasText("December 2007") /\ HasText("February 2018") /\ HasText("someday")

\* the DATE entities by descending confidence, parsed, keeping the years 2008..2017
ValidInWindow(date) == date.valid /\ YearInWindow(date.day)
WindowDates == SelectSeq(ParsedDates(ArraySort(toAwsEntities(snerEntites))), ValidInWindow)

\* C5 (as claimed): dateRange.min is the first and dateRange.max the last
\* element of the confidence-sorted list of DATE entities with a year in
\* 2008..2017.
C5_EndpointsOfWindowDates ==
    pc = "resolved" =>
        /\ Len(WindowDates) > 0
        /\ query.dateRange.min = WindowDates[1]
        /\ query.dateRange.max = WindowDates[Len(WindowDates)]

\* prefix test, character by character
IsPrefixOf(stem, word) ==
    /\ Len(stem) <= Len(word)
    /\ \A k \in 1..Len(stem) : SubSeq(word, k, k) = SubSeq(stem, k, k)

Vocabulary(v) ==
    CASE v = "Temperature"        -> {"hot", "cold", "warm", "freeze"}
      [] v = "TotalCloudCover"    -> {"sun", "cloud", "clear", "overcast"}
      [] v = "TotalPrecipitation" -> {"dry", "wet", "rain", "moist"}
      [] v = "WindSpeed"          -> {"wind", "storm", "calm"}

VariableOrder == <<"Temperature", "TotalCloudCover", "TotalPrecipitation", "WindSpeed">>

VocabularyMatches(v, ws) ==
    \E stem \in Vocabulary(v) : \E j \in DOMAIN ws : IsPrefixOf(stem, ws[j])

\* C6: the variable of a returned Query is the first of Temperature,
\* TotalCloudCover, TotalPrecipitation, WindSpeed whose vocabulary has an entry
\* that is a prefix of some keyword; with no such variable createQuery fails
\* with NoVariableFound and returns no Query.
C6_FirstMatchingVariable ==
    /\ pc = "resolved" =>
        \E k \in DOMAIN VariableOrder :
            /\ query.variable = VariableOrder[k]
            /\ VocabularyMatches(VariableOrder[k], words)
            /\ \A h \in 1..(k - 1) : ~VocabularyMatches(VariableOrder[h], words)
    /\ (pc = "rejected" /\ Len(geoCalls) = 1 /\ error # "GeoError") =>
        IF \E k \in DOMAIN VariableOrder : VocabularyMatches(VariableOrder[k], words)
        THEN FALSE
        ELSE error = NoVariableFound /\ query = NoQuery

C6_Witness ==
    /\ pc = "resolved"
    /\ words = <<"cold", "windy">>
    /\ query.variable = "Temperature"

\* index of the LOCATION entity with the highest confidence, the earliest
\* extracted among equals
IsBestLocation(i) ==
    /\ snerEntites[i].type = "LOCATION"
    /\ \A j \in DOMAIN snerEntites :
          snerEntites[j].type = "LOCATION" =>
              \/ snerEntites[j].confidence < snerEntites[i].confidence
              \/ snerEntites[j].confidence = snerEntites[i].confidence /\ i <= j

\* C10: the geocoding lookup is invoked at most once, only after both entity
\* checks have passed, and with the text of the highest-confidence LOCATION
\* entity, the earliest-extracted one among equals.
C10_GeocodeOnceBestLocation ==
    /\ Len(geoCalls) <= 1
    /\ Len(geoCalls) = 1 =>
        /\ Classified /\ HasValidDate /\ HasLocation
        /\ error \notin {NoDatesFound, NoLocationsFound}
        /\ \E i \in DOMAIN snerEntites : IsBestLocation(i) /\ geoCalls[1] = snerEntites[i].text
    /\ error \in {NoDatesFound, NoLocationsFound} => geoCalls = << >>
    /\ pc \in {"geocoding", "resolved"} => Len(geoCalls) = 1

C10_Witness ==
    /\ pc = "resolved"
    /\ geoCalls = <<"London">>
    /\ \E i, j \in DOMAIN snerEntites :
        /\ i < j
        /\ snerEntites[i] = [type |-> "LOCATION", text |-> "London", confidence |-> 90]
        /\ snerEntites[j] = [type |-> "LOCATION", text |-> "Paris", confidence |-> 90]

(***************************************************************************)
(* Properties of toDataRequest and runQuery (checked under SpecRun)        *)
(***************************************************************************)
DigitValue(ch) ==
    CASE ch = "0" -> 0 [] ch = "1" -> 1 [] ch = "2" -> 2 [] ch = "3" -> 3
      [] ch = "4" -> 4 [] ch = "5" -> 5 [] ch = "6" -> 6 [] ch = "7" -> 7
      [] ch = "8" -> 8 [] ch = "9" -> 9

RECURSIVE StringToNat(_)
StringToNat(str) ==
    IF Len(str) = 0 THEN 0
    ELSE 10 * StringToNat(SubSeq(str, 1, Len(str) - 1)) + DigitValue(SubSeq(str, Len(str), Len(str)))

StringToInt(str) ==
    IF SubSeq(str, 1, 1) = "-" THEN -StringToNat(SubSeq(str, 2, Len(str)))
    ELSE StringToNat(str)

\* the value, in tenths, of a decimal numeral with at most one fractional digit
DecimalTenths(str) ==
    LET neg == SubSeq(str, 1, 1) = "-"
        body == IF neg THEN SubSeq(str, 2, Len(str)) ELSE str
        dots == {i \in 1..Len(body) : SubSeq(body, i, i) = "."}
        p == CHOOSE i \in dots : TRUE
        val == IF dots = {} THEN 10 * StringToNat(body)
               ELSE 10 * StringToNat(SubSeq(body, 1, p - 1))
                    + DigitValue(SubSeq(body, p + 1, Len(body)))
    IN IF neg THEN -val ELSE val

\* g is the ceiling of t tenths
IsCeilingOf(g, t) == 10 * (g - 1) < t /\ t <= 10 * g

RequestBuilt == rpc \notin {"idle", "start"}

BoxOrdered(box) ==
    /\ box.latitude.min <= box.latitude.max
    /\ box.longitude.min <= box.longitude.max

ParisBox ==
    [latitude |-> [min |-> 488, max |-> 489], longitude |-> [min |-> 23, max |-> 24]]

\* C7: runQuery calls requestGrib, requestJsonLink and get in this order, each
\* at most once, each later call on the result of the earlier one and only
\* once that one has resolved; after a rejection no further call is made.
C7_SubmitResolveFetchInOrder ==
    RequestBuilt =>
        /\ Len(calls) \in 1..3
        /\ \A k \in DOMAIN calls : calls[k].fn = <<"requestGrib", "requestJsonLink", "get">>[k]
        /\ calls[1].arg = toDataRequest(rquery)
        /\ Len(calls) >= 2 => (Len(results) >= 1 /\ calls[2].arg = results[1])
        /\ Len(calls) >= 3 => (Len(results) >= 2 /\ calls[3].arg = results[2].link)
        /\ Len(results) \in {Len(calls) - 1, Len(calls)}
        /\ rpc = "rejected" => (rerror # None /\ Len(calls) = Len(results) + 1)
        /\ rpc = "resolved" => (Len(calls) = 3 /\ Len(results) = 3)

C7_Witness ==
    /\ rpc = "rejected"
    /\ rerror = "ResolveError"
    /\ Len(calls) = 2
    /\ calls[2].arg = results[1]

\* C8 (as claimed): for a bounding box with min <= max on both axes, grid holds
\* the ceilings of the latitude and longitude spans and area holds
\* [latMax, lonMin, latMin, lonMax], each as a decimal string; the box
\* lat [48.8, 48.9], lon [2.3, 2.4] gives grid ["1","1"] and
\* area ["48.9","2.3","48.8","2.4"].
C8_GridAndArea ==
    (RequestBuilt /\ BoxOrdered(rquery.geoCoordinates)) =>
        LET o == request.options
            lat == rquery.geoCoordinates.latitude
            lon == rquery.geoCoordinates.longitude
        IN /\ Len(o.grid) = 2 /\ Len(o.area) = 4
           /\ IsCeilingOf(StringToInt(o.grid[1]), lat.max - lat.min)
           /\ IsCeilingOf(StringToInt(o.grid[2]), lon.max - lon.min)
           /\ DecimalTenths(o.area[1]) = lat.max
           /\ DecimalTenths(o.area[2]) = lon.min
           /\ DecimalTenths(o.area[3]) = lat.min
           /\ DecimalTenths(o.area[4]) = lon.max
           /\ rquery.geoCoordinates = ParisBox =>
                (o.grid = <<"1", "1">> /\ o.area = <<"48.9", "2.3", "48.8", "2.4">>)

DaysInMonth(y, m) ==
    IF m = 2 THEN (IF (y % 4 = 0 /\ y % 100 # 0) \/ y % 400 = 0 THEN 29 ELSE 28)
    ELSE IF m \in {4, 6, 9, 11} THEN 30 ELSE 31

\* day number n is the UTC day holding the rounded millisecond midpoint of min and max
IsMidpointDay(n, min, max) ==
    LET k == 2 * n - (min.day + max.day)
        x == (min.ms + max.ms) - k * MsPerDay
    IN k \in {-1, 0, 1} /\ -1 <= x /\ x <= 2 * MsPerDay - 2

\* C9: year, month and day are the zero-padded UTC calendar components of the
\* rounded millisecond midpoint of dateRange.min and dateRange.max (those of d
\* when min = max = d), and options holds no hour or time field.
C9_MidpointDate ==
    RequestBuilt =>
        LET o == request.options
            y == StringToNat(o.year)
            m == StringToNat(o.month)
            d == StringToNat(o.day)
            min == rquery.dateRange.min
            max == rquery.dateRange.max
        IN /\ Len(o.year) = 4 /\ Len(o.month) = 2 /\ Len(o.day) = 2
           /\ m \in 1..12 /\ d \in 1..DaysInMonth(y, m)
           /\ IsMidpointDay(DaysFromCivil(y, m, d), min, max)
           /\ (min = max /\ min.day = DaysFromCivil(2015, 3, 1)) =>
                (o.year = "2015" /\ o.month = "03" /\ o.day = "01")
           /\ DOMAIN o \cap {"time", "hour"} = {}
           /\ DOMAIN o = {"variable", "product_type", "grid", "area",
                          "year", "month", "day", "format"}

C9_Witness ==
    /\ RequestBuilt
    /\ rquery.dateRange.min = MkDate(2015, 12, 31, 86399999)
    /\ rquery.dateRange.max = MkDate(2016, 1, 1, 0)
    /\ request.options.year = "2016"
    /\ request.options.month = "01"
    /\ request.options.day = "01"

====
